---- MODULE Spec2Model ----
(***************************************************************************)
(* A state-machine model of backend/main.py: the /analyze_error handler,   *)
(* its pattern catalog, the code-context heuristics, the in-memory         *)
(* ERROR_HISTORY store and the three calls to the generative-AI service.   *)
(*                                                                         *)
(* Conventions                                                             *)
(*   - Optional[T] is a sequence of length <= 1: <<>> is None, <<x>> is x. *)
(*   - A string the code inspects is a sequence of tokens; a string it     *)
(*     only copies is a TLA+ string.                                       *)
(*   - A word (\w+) is a sequence of one-character strings.                *)
(*   - A confidence is an integer number of hundredths (0.95 is 95).       *)
(*   - One action is the code that runs between two awaits of the event    *)
(*     loop: asyncio runs a coroutine uninterrupted up to its next         *)
(*     `await asyncio.to_thread(...)`.                                     *)
(***************************************************************************)
EXTENDS Integers, Sequences, FiniteSets, TLC

\* ------------------------------------------------------------------ bounds

\* Requests accepted over the life of the process.
MaxRequests == 3

\* Records already in the store when a single request is followed from its
\* arrival to its answer: enough for its list to outgrow the five records
\* the statistics prompt carries.
MaxPrior == 6

\* Requests the event loop holds at once (suspended at an await or finished
\* and not yet replaced).
MaxInFlight == 2

\* ------------------------------------------------------------- optionals

None == <<>>

Some(x) == <<x>>

Truthy_notnone(o) == o # None

\* Python truthiness of an Optional[str] the code only copies (project_id):
\* None and "" are falsy.
Truthy(o) == o # None /\ o[1] # ""

\* Python truthiness of an Optional[str] the code inspects (code_context):
\* None and the empty text are falsy.
TruthyText(o) == o # None /\ o[1] # <<>>

\* ------------------------------------------------------------------ words

W(s) == [t |-> "w", s |-> s]

P(c) == [t |-> c, s |-> <<>>]

foo == <<"f", "o", "o">>

foob == <<"f", "o", "o", "b">>

xs == <<"x", "s">>

Digits == {"0", "1", "2", "3", "4", "5", "6", "7", "8", "9"}

DigitVal(c) ==
    CASE c = "0" -> 0 [] c = "1" -> 1 [] c = "2" -> 2 [] c = "3" -> 3
      [] c = "4" -> 4 [] c = "5" -> 5 [] c = "6" -> 6 [] c = "7" -> 7
      [] c = "8" -> 8 [] c = "9" -> 9

\* ------------------------------------------------------- error messages
\* An error message is a sequence of fragments.  A fragment is a piece of
\* text that one catalog regex can match (k names the literal text, w the
\* word captured by its (\w+) group, <<>> where the text has an empty word
\* there) or text none of them matches (k = "other").

Frag(k, w) == [k |-> k, w |-> w]

\* Whether the regex of catalog entry `label` matches the fragment.
PatternMatchesFragment(label, f) ==
    CASE label = "NameError" -> f.k = "name '%' is not defined" /\ f.w # <<>>
      [] label = "TypeError" ->
            f.k = "unsupported operand type(s) for +: '%' and '%'" /\ f.w # <<>>
      [] label = "IndexError" -> f.k = "list index out of range"
      [] label = "KeyError" -> f.k = "KeyError: '%'" /\ f.w # <<>>
      [] label = "SyntaxError" -> f.k = "SyntaxError: invalid syntax"
      [] label = "IndentationError" ->
            f.k \in {"IndentationError: unexpected indent",
                     "IndentationError: expected an indented block"}
      [] label = "ImportError" ->
            f.k = "ImportError: No module named '%'" /\ f.w # <<>>
      [] label = "AttributeError" ->
            f.k = "AttributeError: '%' object has no attribute '%'" /\ f.w # <<>>
      [] label = "ZeroDivisionError" ->
            f.k = "ZeroDivisionError: division by zero"
      [] label = "ValueError" ->
            f.k = "ValueError: invalid literal for int() with base 10: '%'"
            /\ f.w # <<>>
      [] OTHER -> FALSE

\* re.search(pattern, message): the regex is unanchored, so it matches when
\* some fragment of the message matches.
ReSearch(label, msg) ==
    \E i \in 1..Len(msg) : PatternMatchesFragment(label, msg[i])

\* ------------------------------------------------------------ the catalog

Sol(fix, confidence) ==
    [fix |-> fix, explanation |-> "catalog", confidence |-> confidence,
     code_example |-> "catalog"]

\* ERROR_PATTERNS, in declaration order (a dict iterates in insertion order).
ERROR_PATTERNS ==
    << [label |-> "NameError",
        solutions |-> << Sol("Define the variable before using it", 90) >>,
        concepts |-> << "variable scope", "variable declaration" >>],
       [label |-> "TypeError",
        solutions |-> << Sol("Convert variables to compatible types before operation", 85) >>,
        concepts |-> << "type conversion", "operators" >>],
       [label |-> "IndexError",
        solutions |-> << Sol("Check that the index is within the bounds of the list", 95) >>,
        concepts |-> << "lists", "indexing", "bounds checking" >>],
       [label |-> "KeyError",
        solutions |-> << Sol("Check if the key exists before accessing it", 90) >>,
        concepts |-> << "dictionaries", "key validation", "default values" >>],
       [label |-> "SyntaxError",
        solutions |-> << Sol("Check your code for syntax errors", 70) >>,
        concepts |-> << "syntax", "code structure", "indentation" >>],
       [label |-> "IndentationError",
        solutions |-> << Sol("Fix your code's indentation", 90) >>,
        concepts |-> << "indentation", "code blocks", "Python syntax" >>],
       [label |-> "ImportError",
        solutions |-> << Sol("Install the missing module or check the import statement", 85) >>,
        concepts |-> << "imports", "modules", "package management" >>],
       [label |-> "AttributeError",
        solutions |-> << Sol("Check if the object has the attribute you're trying to access", 85) >>,
        concepts |-> << "object attributes", "methods", "type checking" >>],
       [label |-> "ZeroDivisionError",
        solutions |-> << Sol("Check for zero before dividing", 95) >>,
        concepts |-> << "division", "error checking", "defensive programming" >>],
       [label |-> "ValueError",
        solutions |-> << Sol("Ensure the string can be converted to an integer", 90) >>,
        concepts |-> << "type conversion", "input validation", "exception handling" >>] >>

\* The indices of the catalog entries whose regex matches the message.
MatchingEntries(msg) ==
    {i \in 1..Len(ERROR_PATTERNS) : ReSearch(ERROR_PATTERNS[i].label, msg)}

Min(S) == CHOOSE x \in S : \A y \in S : x <= y

FirstMatch_last(msg) ==
    LET S == MatchingEntries(msg)
    IN IF S = {} THEN 0 ELSE CHOOSE x \in S : \A y \in S : y <= x

\* The loop of analyze_error: the first entry, in declaration order, whose
\* regex matches; 0 when the loop ends without a match.
FirstMatch(msg) ==
    LET S == MatchingEntries(msg)
    IN IF S = {} THEN 0 ELSE Min(S)

\* ------------------------------------------------- analyze_code_context
\* A code context is a sequence of tokens: W(s) is a run of word characters
\* (an identifier or a number), P(c) is one of "=", "[", "]", "," or "nl"
\* (a line break).  Adjacent tokens have no blank between them, except
\* around "=", where the code's regex accepts blanks.

NoAnalysis == [specific_issue |-> None, specific_fix |-> None]

Abs(n) == IF n < 0 THEN -n ELSE n

MinLen(a, b) == IF Len(a) < Len(b) THEN Len(a) ELSE Len(b)

\* sum(1 for a, b in zip(var, undefined_var) if a != b)
Differences(var, undefined_var) ==
    Cardinality({i \in 1..MinLen(var, undefined_var) : var[i] # undefined_var[i]})

\* re.findall(r'\b(\w+)\b', line) over every line, collected in a set.
AllVariables(ctx) == {ctx[i].s : i \in {j \in 1..Len(ctx) : ctx[j].t = "w"}}

\* re.search(r"name '(\w+)' is not defined", error_message).group(1), or None.
UndefinedVar(msg) ==
    LET S == {i \in 1..Len(msg) : PatternMatchesFragment("NameError", msg[i])}
    IN IF S = {} THEN None ELSE Some(msg[Min(S)].w)

IsSimilar_anylen(var, undefined_var) ==
    var # undefined_var /\ Differences(var, undefined_var) <= 2

\* The test that puts var in similar_vars.
IsSimilar(var, undefined_var) ==
    /\ var # undefined_var
    /\ Abs(Len(var) - Len(undefined_var)) <= 2
    /\ Differences(var, undefined_var) <= 2

SimilarVars(ctx, undefined_var) ==
    {v \in AllVariables(ctx) : IsSimilar(v, undefined_var)}

\* The NameError branch.  similar_vars is filled by iterating over a set, so
\* its order, and with it similar_vars[0], is any order: one result per
\* choice of first element.
NameErrorAnalyses(msg, ctx) ==
    LET u == UndefinedVar(msg)
        sim == IF u = None THEN {} ELSE SimilarVars(ctx, u[1])
    IN IF sim = {}
       THEN {NoAnalysis}
       ELSE {[specific_issue |-> Some([k |-> "typo", name |-> u[1]]),
              specific_fix |-> Some([k |-> "did you mean", first |-> f,
                                     similar |-> sim])] : f \in sim}

RECURSIVE SkipNl(_, _)
\* \s* : the first index >= i that is no line break (Len + 1 at the end).
SkipNl(ctx, i) ==
    IF i <= Len(ctx) /\ ctx[i].t = "nl" THEN SkipNl(ctx, i + 1) ELSE i

\* (.*?)\] : the index of the first "]" at or after i, 0 when a line break or
\* the end of the text comes first ('.' matches no line break).
RECURSIVE CloseAt(_, _)
CloseAt(ctx, i) ==
    IF i > Len(ctx) \/ ctx[i].t = "nl" THEN 0
    ELSE IF ctx[i].t = "]" THEN i
    ELSE CloseAt(ctx, i + 1)

\* r'(\w+)\s*=\s*\[(.*?)\]' tried at token i: the index of the closing "]",
\* 0 when there is no match starting at i.
ListMatchAt(ctx, i) ==
    IF ctx[i].t # "w" THEN 0
    ELSE LET a == SkipNl(ctx, i + 1)
         IN IF a > Len(ctx) \/ ctx[a].t # "=" THEN 0
            ELSE LET b == SkipNl(ctx, a + 1)
                 IN IF b > Len(ctx) \/ ctx[b].t # "[" THEN 0
                    ELSE CloseAt(ctx, b + 1)

\* The index of the "[" of a match of the list pattern that starts at i.
OpenOf(ctx, i) == SkipNl(ctx, SkipNl(ctx, i + 1) + 1)

\* len(list_content.split(',')): one more than the commas between the
\* brackets, so the empty text counts as one item.
ListLength(ctx, open, close) ==
    Cardinality({j \in (open + 1)..(close - 1) : ctx[j].t = ","}) + 1

\* re.findall(list_pattern, code_context): the non-overlapping matches from
\* left to right, each as (list_name, list_length).
RECURSIVE ListMatches(_, _)
ListMatches(ctx, i) ==
    IF i > Len(ctx) THEN <<>>
    ELSE LET c == ListMatchAt(ctx, i)
         IN IF c = 0 THEN ListMatches(ctx, i + 1)
            ELSE << [list_name |-> ctx[i].s,
                     list_length |-> ListLength(ctx, OpenOf(ctx, i), c)] >>
                 \o ListMatches(ctx, c + 1)

IsSuffix_whole(s, word) == s = word

IsSuffix(s, word) ==
    /\ Len(s) <= Len(word)
    /\ \A i \in 1..Len(s) : s[i] = word[Len(word) - Len(s) + i]

AllDigits(s) == s # <<>> /\ \A i \in 1..Len(s) : s[i] \in Digits

RECURSIVE IntOf(_)
\* int(index_str)
IntOf(s) ==
    IF s = <<>> THEN 0
    ELSE 10 * IntOf(SubSeq(s, 1, Len(s) - 1)) + DigitVal(s[Len(s)])

\* rf'{list_name}\[(\d+)\]' tried at token i.  The pattern carries no word
\* boundary, so the name may be the tail of a longer word.
IndexMatchAt(ctx, list_name, i) ==
    /\ i + 3 <= Len(ctx)
    /\ ctx[i].t = "w" /\ IsSuffix(list_name, ctx[i].s)
    /\ ctx[i + 1].t = "["
    /\ ctx[i + 2].t = "w" /\ AllDigits(ctx[i + 2].s)
    /\ ctx[i + 3].t = "]"

\* re.findall(index_pattern, code_context), as integers, left to right.
RECURSIVE IndexMatches(_, _, _)
IndexMatches(ctx, list_name, i) ==
    IF i > Len(ctx) THEN <<>>
    ELSE IF IndexMatchAt(ctx, list_name, i)
         THEN << IntOf(ctx[i + 2].s) >> \o IndexMatches(ctx, list_name, i + 4)
         ELSE IndexMatches(ctx, list_name, i + 1)

IndexIssue(index, m) ==
    [specific_issue |-> Some([k |-> "index out of range", index |-> index,
                              list_name |-> m.list_name]),
     specific_fix |-> Some([k |-> "list length", list_name |-> m.list_name,
                            list_length |-> m.list_length])]

\* The inner loop: each index >= list_length overwrites the analysis.
RECURSIVE ScanIndexes(_, _, _, _)
ScanIndexes(idx, j, m, acc) ==
    IF j > Len(idx) THEN acc
    ELSE ScanIndexes(idx, j + 1, m,
                     IF idx[j] >= m.list_length THEN IndexIssue(idx[j], m) ELSE acc)

\* The outer loop over list_matches.
RECURSIVE ScanLists(_, _, _, _)
ScanLists(ctx, lm, k, acc) ==
    IF k > Len(lm) THEN acc
    ELSE ScanLists(ctx, lm, k + 1,
                   ScanIndexes(IndexMatches(ctx, lm[k].list_name, 1), 1, lm[k], acc))

\* The IndexError branch.
IndexErrorAnalysis(ctx) == ScanLists(ctx, ListMatches(ctx, 1), 1, NoAnalysis)

\* analyze_code_context(error_type, error_message, code_context): the set of
\* values it can return; None (<<>>) for no context, else Some(analysis).
analyze_code_context(error_type, msg, code_context) ==
    IF ~TruthyText(code_context) THEN {None}
    ELSE IF error_type = "NameError"
         THEN {Some(a) : a \in NameErrorAnalyses(msg, code_context[1])}
    ELSE IF error_type = "IndexError"
         THEN {Some(IndexErrorAnalysis(code_context[1]))}
    ELSE {Some(NoAnalysis)}

\* ------------------------------------------------ the generative-AI service
\* generate_content(prompt) either raises or returns a text.  A text is a
\* sequence of tokens: an opening fence tagged json (three backquotes and json), a bare fence (three backquotes), a run of prose,
\* or a JSON document.  A JSON value is a record: an object (o: a function
\* from its keys to values), an array (items) or a string (s).

FenceJson == [t |-> "fence json"]

Fence == [t |-> "fence"]

Prose == [t |-> "prose"]

Json(v) == [t |-> "json", v |-> v]

JObj(o) == [k |-> "object", o |-> o]

JArr(items) == [k |-> "array", items |-> items]

JStr(str) == [k |-> "string", s |-> str]

EmptyDict == [x \in {} |-> <<>>]

IsFence(tok) == tok.t \in {"fence json", "fence"}

FirstIndex(text, from, Test(_)) ==
    LET S == {i \in from..Len(text) : Test(text[i])}
    IN IF S = {} THEN Len(text) + 1 ELSE Min(S)

IsFenceJson(tok) == tok.t = "fence json"

\* The fence stripping done at each call site:
\*   if FENCE_JSON in content: content.split(FENCE_JSON)[1].split(FENCE)[0]
\*   elif FENCE in content:    content.split(FENCE)[1].split(FENCE)[0]
\* (the tagged fence holds the bare one, so either closes the block.)
StripFence(text) ==
    LET open == IF \E i \in 1..Len(text) : IsFenceJson(text[i])
                THEN FirstIndex(text, 1, IsFenceJson)
                ELSE FirstIndex(text, 1, IsFence)
    IN IF open > Len(text) THEN text
       ELSE SubSeq(text, open + 1, FirstIndex(text, open + 1, IsFence) - 1)

\* json.loads(content): Some(value) when the content is one JSON document,
\* None when it raises.
JsonLoads(content) ==
    IF Len(content) = 1 /\ content[1].t = "json" THEN Some(content[1].v) ELSE None

\* The text of a reply decoded as each call site does: None when it raises.
Decode(text) == JsonLoads(StripFence(text))

\* d.get(key, default) on a JSON object.
Get(obj, key, default) == IF key \in DOMAIN obj.o THEN obj.o[key] ELSE default

HasStrFields(v, keys) ==
    /\ v.k = "object"
    /\ \A key \in keys : key \in DOMAIN v.o /\ v.o[key].k = "string"

\* LearningResource(**resource) validates.
ValidResource(v) == HasStrFields(v, {"title", "description", "resource_type"})

\* Solution(**sol) validates (confidence is carried as a string of digits).
ValidSolution(v) ==
    HasStrFields(v, {"fix", "explanation", "confidence", "code_example"})

\* ErrorResponse(concepts=...) validates: a list of strings.
ValidConcepts(c) ==
    c.k = "array" /\ \A i \in 1..Len(c.items) : c.items[i].k = "string"

\* The join of the concepts into the prompt does not raise: a string, or a list of strings.
Joinable(c) == c.k = "string" \/ ValidConcepts(c)

\* --------------------------------------------------------- fixed content

\* resources[:3]
MaxResources == 3

\* error_history[-5:]
HistoryWindow == 5

\* confidence=0.95 of the context-specific solution, in hundredths.
ContextConfidence == 95

\* concepts[0] if concepts else 'errors'
FirstConcept(c) ==
    IF c.k = "string"
    THEN (IF c.s = "" THEN "errors" ELSE "first character")
    ELSE (IF c.items = <<>> THEN "errors" ELSE c.items[1].s)

\* The three resources get_learning_resources returns when its try fails.
FallbackResources(error_type, concepts) ==
    << [title |-> <<"Understanding % in Python", error_type>>,
        resource_type |-> "article"],
       [title |-> <<"Common causes of %", error_type>>,
        resource_type |-> "tutorial"],
       [title |-> <<"Best practices to avoid %", FirstConcept(concepts)>>,
        resource_type |-> "guide"] >>

\* The one resource analyze_with_gemini returns when its try fails.
IntegrationFallback(error_type) ==
    << [title |-> <<"Understanding %", error_type>>, resource_type |-> "guide"] >>

\* ErrorStatistics(): every field None.
EmptyStatistics ==
    [frequency |-> None, common_contexts |-> None, related_errors |-> None,
     last_occurrence |-> None]

Take(seq, n) == SubSeq(seq, 1, IF Len(seq) < n THEN Len(seq) ELSE n)

LastN_first(seq, n) == SubSeq(seq, 1, IF Len(seq) < n THEN Len(seq) ELSE n)

\* error_history[-5:] if len(error_history) > 5 else error_history
LastN(seq, n) == IF Len(seq) > n THEN SubSeq(seq, Len(seq) - n + 1, Len(seq)) ELSE seq

\* The try/except of get_learning_resources applied to the reply of the call:
\* the first three entries as LearningResource, or the fallback on any raise.
ParseResources(reply, error_type, concepts) ==
    IF reply.raise \/ Decode(reply.text) = None
    THEN FallbackResources(error_type, concepts)
    ELSE LET v == Decode(reply.text)[1]
         IN IF v.k # "array" THEN FallbackResources(error_type, concepts)
            ELSE LET kept == Take(v.items, MaxResources)
                 IN IF \E i \in 1..Len(kept) : ~ValidResource(kept[i])
                    THEN FallbackResources(error_type, concepts)
                    ELSE [i \in 1..Len(kept) |->
                             [title |-> <<kept[i].o.title.s>>,
                              resource_type |-> kept[i].o.resource_type.s]]

ParseStatistics_defaults(reply, stats) ==
    [stats EXCEPT !.common_contexts = Some(JArr(<<>>)),
                  !.related_errors = Some(JArr(<<>>))]

\* The try/except of analyze_error_patterns applied to the reply of the
\* call: the two fields set from the decoded object, or the statistics
\* unchanged on any raise (a value that is no object has no .get).
ParseStatistics(reply, stats) ==
    IF reply.raise \/ Decode(reply.text) = None THEN stats
    ELSE LET v == Decode(reply.text)[1]
         IN IF v.k # "object" THEN stats
            ELSE [stats EXCEPT
                    !.common_contexts = Some(Get(v, "common_contexts", JArr(<<>>))),
                    !.related_errors = Some(Get(v, "related_errors", JArr(<<>>)))]

ParseClassification_lenient(reply) ==
    Some([error_type |-> "Unknown Error", solutions |-> <<>>, concepts |-> JArr(<<>>)])

\* Lines 867-878 of analyze_error applied to the reply of the call:
\* Some([error_type, solutions, concepts]), or None on any raise.
ParseClassification(reply) ==
    IF reply.raise \/ Decode(reply.text) = None THEN None
    ELSE LET v == Decode(reply.text)[1]
         IN IF v.k # "object" THEN None
            ELSE LET et == Get(v, "error_type", JStr("Unknown Error"))
                     sols == Get(v, "solutions", JArr(<<>>))
                     con == Get(v, "concepts", JArr(<<>>))
                 IN IF sols.k # "array"
                       \/ \E i \in 1..Len(sols.items) : ~ValidSolution(sols.items[i])
                    THEN None
                    ELSE Some([error_type |-> et.s,
                               solutions |->
                                 [i \in 1..Len(sols.items) |->
                                    [fix |-> sols.items[i].o.fix.s,
                                     explanation |-> "ai",
                                     confidence |-> 70,
                                     code_example |-> "ai"]],
                               concepts |-> con])

\* ------------------------------------------------------------ ERROR_HISTORY
\* A dict of dicts of lists: a function from the project ids present to a
\* function from the error types present to a sequence of records.

\* ERROR_HISTORY.get(project_id, {}).get(error_type, [])
HistoryOf(h, project_id, error_type) ==
    IF project_id \in DOMAIN h /\ error_type \in DOMAIN h[project_id]
    THEN h[project_id][error_type]
    ELSE <<>>

AppendRecord_allprojects(h, project_id, error_type, rec) ==
    [q \in DOMAIN h \cup {project_id} |->
       LET inner == IF q \in DOMAIN h THEN h[q] ELSE EmptyDict
       IN [e \in DOMAIN inner \cup {error_type} |->
             IF e = error_type
             THEN Append(HistoryOf(h, q, error_type), rec)
             ELSE inner[e]]]

AppendRecord_prepend(h, project_id, error_type, rec) ==
    [q \in DOMAIN h \cup {project_id} |->
       IF q = project_id
       THEN [e \in (IF q \in DOMAIN h THEN DOMAIN h[q] ELSE {}) \cup {error_type} |->
               IF e = error_type
               THEN <<rec>> \o HistoryOf(h, project_id, error_type)
               ELSE h[q][e]]
       ELSE h[q]]

AppendRecord_overwrite(h, project_id, error_type, rec) ==
    [q \in DOMAIN h \cup {project_id} |->
       IF q = project_id
       THEN [e \in (IF q \in DOMAIN h THEN DOMAIN h[q] ELSE {}) \cup {error_type} |->
               IF e = error_type THEN <<rec>> ELSE h[q][e]]
       ELSE h[q]]

\* Lines 631-641: create the missing keys, then append the record.
AppendRecord(h, project_id, error_type, rec) ==
    LET inner == IF project_id \in DOMAIN h THEN h[project_id] ELSE EmptyDict
        inner2 == [e \in DOMAIN inner \cup {error_type} |->
                     IF e = error_type
                     THEN Append(HistoryOf(h, project_id, error_type), rec)
                     ELSE inner[e]]
    IN [q \in DOMAIN h \cup {project_id} |->
          IF q = project_id THEN inner2 ELSE h[q]]

ComputeStatistics_last(h, project_id, error_type) ==
    IF ~Truthy(project_id) THEN EmptyStatistics
    ELSE LET recs == HistoryOf(h, project_id[1], error_type)
         IN [frequency |-> Some(Len(recs)),
             common_contexts |-> None,
             related_errors |-> None,
             last_occurrence |->
                IF Len(recs) > 1 THEN Some(recs[Len(recs)].timestamp) ELSE None]

\* Lines 644-651: the statistics read back from the store.
ComputeStatistics(h, project_id, error_type) ==
    IF ~Truthy(project_id) THEN EmptyStatistics
    ELSE LET recs == HistoryOf(h, project_id[1], error_type)
         IN [frequency |-> Some(Len(recs)),
             common_contexts |-> None,
             related_errors |-> None,
             last_occurrence |->
                IF Len(recs) > 1 THEN Some(recs[Len(recs) - 1].timestamp) ELSE None]

\* ------------------------------------------------------------------- state

VARIABLES
    credential,      \* whether GEMINI_API_KEY is set in the environment
    ERROR_HISTORY,   \* the module-level dict
    clock,           \* datetime.now(), as a count of ticks
    started,         \* requests accepted so far
    resolved,        \* per (project id, error type): the requests resolved so
                     \* far, counted when requests are served one at a time
    owner,           \* per timestamp: the request data that stored the record
    reqs             \* per slot of the event loop: one request's coroutine

vars == <<credential, ERROR_HISTORY, clock, started, resolved, owner, reqs>>

Slots == 1..MaxInFlight

NoInput == [error_message |-> <<>>, code_context |-> None, project_id |-> None]

IdleReq ==
    [pc |-> "idle", input |-> NoInput, catalog |-> 0,
     error_type |-> "", solutions |-> <<>>, concepts |-> JArr(<<>>),
     learning_resources |-> <<>>, statistics |-> EmptyStatistics,
     prompt_history |-> <<>>, calls |-> <<>>,
     stamp |-> None, appends |-> 0,
     status |-> 0, response |-> None]

Terminal(q) == q.pc \in {"RESPONDING", "NOT_FOUND", "SERVER_ERROR"}

Free(q) == q.pc = "idle" \/ Terminal(q)

\* ------------------------------------------------------------------ inputs

NameFoo == Frag("name '%' is not defined", foo)

IndexOut == Frag("list index out of range", <<>>)

\* "foo = 1\nfoob = 2"
TypoContext ==
    << W(foo), P("="), W(<<"1">>), P("nl"), W(foob), P("="), W(<<"2">>) >>

\* "xs = [1, 2, 3]\nx = xs[3]"
ListContext(index) ==
    << W(xs), P("="), P("["), W(<<"1">>), P(","), W(<<"2">>), P(","),
       W(<<"3">>), P("]"), P("nl"),
       W(<<"x">>), P("="), W(xs), P("["), W(<<index>>), P("]") >>

ProjectIds == {None, Some(""), Some("p1"), Some("p2")}

\* The request bodies: (error_message, code_context), each with every
\* project id.
Bodies ==
    { <<  <<NameFoo>>, Some(TypoContext) >>,
      <<  <<NameFoo>>, None >>,
      <<  <<IndexOut, NameFoo>>, None >>,
      <<  <<IndexOut>>, Some(ListContext("3")) >>,
      <<  <<IndexOut>>, Some(ListContext("2")) >>,
      <<  <<Frag("ZeroDivisionError: division by zero", <<>>),
            Frag("KeyError: '%'", foo)>>, Some(<<>>) >>,
      <<  <<Frag("other", <<>>)>>, None >>,
      <<  <<Frag("name '%' is not defined", <<>>)>>, Some(TypoContext) >> }

\* One fragment per text a catalog regex matches, a fragment none matches,
\* and the NameError text around an empty name, which \w+ does not match.
Fragments ==
    { NameFoo, IndexOut,
      Frag("unsupported operand type(s) for +: '%' and '%'", foo),
      Frag("KeyError: '%'", foo),
      Frag("SyntaxError: invalid syntax", <<>>),
      Frag("IndentationError: unexpected indent", <<>>),
      Frag("IndentationError: expected an indented block", <<>>),
      Frag("ImportError: No module named '%'", foo),
      Frag("AttributeError: '%' object has no attribute '%'", foo),
      Frag("ZeroDivisionError: division by zero", <<>>),
      Frag("ValueError: invalid literal for int() with base 10: '%'", foo),
      Frag("other", <<>>),
      Frag("name '%' is not defined", <<>>) }

\* Every message of one or two fragments.
Messages == {<<f>> : f \in Fragments} \cup {<<f, g>> : f \in Fragments, g \in Fragments}

\* Words around the undefined name foo: the name itself, one character
\* longer, two longer, three longer, two shorter, and of its length with two
\* and with three characters changed.
NearWords ==
    { foo, foob, <<"f", "o", "o", "x", "y">>, <<"f", "o", "o", "x", "y", "z">>,
      <<"1">>, <<"f", "a", "b">>, <<"b", "a", "r">> }

\* The contexts of one line and of two lines, a word on each.
WordContexts ==
    { << W(a) >> : a \in NearWords }
    \cup { << W(a), P("nl"), W(b) >> : a \in NearWords, b \in NearWords }

RECURSIVE Elements(_)
\* The text of n list elements, separated by commas.
Elements(n) ==
    IF n = 0 THEN <<>>
    ELSE IF n = 1 THEN << W(<<"1">>) >>
    ELSE Elements(n - 1) \o << P(","), W(<<"1">>) >>

\* The line "name = [1, 1, ...]" with n elements.
AssignLine(name, n) == << W(name), P("="), P("[") >> \o Elements(n) \o << P("]") >>

\* The line "word[index]".
SubscriptLine(word, index) == << W(word), P("["), W(index), P("]") >>

RECURSIVE JoinLines(_)
JoinLines(lines) ==
    IF Len(lines) = 1 THEN lines[1]
    ELSE lines[1] \o << P("nl") >> \o JoinLines(Tail(lines))

\* Contexts of the IndexError analysis: lists of 0 to 3 elements (one of
\* them written over two lines), subscripts below, at and above the length,
\* a subscript of a longer name that ends with the name of a list, several
\* subscripts and several lists, and a subscript with no list.
IndexContexts ==
    { JoinLines(<< AssignLine(xs, n), SubscriptLine(xs, <<i>>) >>) :
        n \in 0..3, i \in {"0", "1", "2", "3"} }
    \cup
    { JoinLines(<< AssignLine(<<"s">>, 1), SubscriptLine(xs, <<"3">>) >>),
      JoinLines(<< AssignLine(<<"s">>, 1), SubscriptLine(xs, <<"0">>) >>),
      JoinLines(<< AssignLine(xs, 1), SubscriptLine(<<"s">>, <<"3">>) >>),
      JoinLines(<< AssignLine(xs, 2), SubscriptLine(xs, <<"1", "2">>) >>),
      JoinLines(<< AssignLine(xs, 2), SubscriptLine(xs, <<"2">>),
                   SubscriptLine(xs, <<"7">>) >>),
      JoinLines(<< AssignLine(xs, 2), SubscriptLine(xs, <<"7">>),
                   SubscriptLine(xs, <<"0">>) >>),
      JoinLines(<< AssignLine(xs, 1), AssignLine(foo, 2),
                   SubscriptLine(xs, <<"1">>), SubscriptLine(foo, <<"5">>) >>),
      JoinLines(<< AssignLine(xs, 1), AssignLine(foo, 2),
                   SubscriptLine(foo, <<"5">>), SubscriptLine(xs, <<"0">>) >>),
      JoinLines(<< << W(xs), P("="), P("["), W(<<"1">>), P(",") >>,
                   << W(<<"1">>), P("]") >>, SubscriptLine(xs, <<"5">>) >>),
      SubscriptLine(xs, <<"3">>) }

Inputs ==
    { [error_message |-> <<IndexOut>>, code_context |-> Some(c), project_id |-> None] :
        c \in IndexContexts }
    \cup
    { [error_message |-> b[1], code_context |-> b[2], project_id |-> pid] :
        b \in Bodies, pid \in ProjectIds }
    \cup { [error_message |-> m, code_context |-> None, project_id |-> None] :
             m \in Messages }
    \cup { [error_message |-> <<NameFoo>>, code_context |-> Some(c), project_id |-> None] :
             c \in WordContexts }

\* The requests whose interleavings are explored: a body the catalog matches,
\* without a project id and for two projects, and a body it does not match.
StoreInputs ==
    { [error_message |-> <<NameFoo>>, code_context |-> None, project_id |-> pid] :
        pid \in {None, Some("p1"), Some("p2")} }
    \cup { [error_message |-> <<Frag("other", <<>>)>>, code_context |-> None,
            project_id |-> Some("p1")] }

\* ----------------------------------------------------------------- replies
\* What the service can answer to a call.  `kind` says what was sent (the
\* code never reads it): "raise", "not json", "wrong shape", or the kind of
\* the JSON document a well-formed text carries.

Raised == [raise |-> TRUE, text |-> <<>>, kind |-> "raise"]

\* A document sent alone or inside a fenced block.
Wrapped(v) ==
    { <<Json(v)>>,
      <<FenceJson, Json(v), Fence>>,
      <<Fence, Json(v), Fence>>,
      <<Prose, FenceJson, Json(v), Fence, Prose>>,
      <<FenceJson, Json(v)>> }

\* Texts that are no JSON document for the code: empty, prose, prose around
\* an unfenced document, a block fenced with another language tag, a
\* document followed by a fenced note.
Malformed(v) ==
    { <<>>, <<Prose>>, <<Prose, Json(v)>>, <<Fence, Prose, Json(v), Fence>>,
      <<Json(v), Fence, Prose, Fence>> }

Texts(v, kind) ==
    {[raise |-> FALSE, text |-> t, kind |-> kind] : t \in Wrapped(v)}
    \cup {[raise |-> FALSE, text |-> t, kind |-> "not json"] : t \in Malformed(v)}

Fields(keys, str) == JObj([key \in keys |-> JStr(str)])

AIResource(n) == Fields({"title", "description", "resource_type"}, n)

AISolution == Fields({"fix", "explanation", "confidence", "code_example"}, "ai fix")

ResourceReplies ==
    {Raised}
    \cup Texts(JArr(<<AIResource("r1"), AIResource("r2"), AIResource("r3"),
                     AIResource("r4")>>), "ok")
    \cup Texts(JArr(<<>>), "ok")
    \cup Texts(JArr(<<AIResource("r1"), Fields({"title"}, "r2")>>), "wrong shape")
    \cup Texts(JObj(EmptyDict), "wrong shape")

StatisticsReplies ==
    {Raised}
    \cup Texts(JObj([key \in {"common_contexts", "related_errors"} |->
                       JArr(<<JStr(key)>>)]), "ok")
    \cup Texts(JObj(EmptyDict), "missing keys")
    \cup Texts(JArr(<<>>), "wrong shape")

Classified(error_type, solutions, concepts) ==
    JObj([key \in {"error_type", "solutions", "concepts"} |->
            CASE key = "error_type" -> JStr(error_type)
              [] key = "solutions" -> solutions
              [] key = "concepts" -> concepts])

ClassificationReplies ==
    {Raised}
    \cup Texts(Classified("RuntimeError", JArr(<<AISolution>>),
                          JArr(<<JStr("recursion")>>)), "ok")
    \cup Texts(Classified("NameError", JArr(<<AISolution>>),
                          JArr(<<JStr("variable scope")>>)), "ok")
    \cup Texts(JObj(EmptyDict), "missing keys")
    \cup Texts(Classified("RuntimeError", JArr(<<Fields({"fix"}, "ai fix")>>),
                          JArr(<<>>)), "wrong shape")
    \cup Texts(JArr(<<>>), "wrong shape")
    \cup Texts(Classified("RuntimeError", JArr(<<AISolution>>), JStr("recursion")),
               "concepts not a list")

\* One reply of the service per way the handler can go on, for the runs that
\* explore the interleavings of several requests.
One(v, kind) == [raise |-> FALSE, text |-> <<FenceJson, Json(v), Fence>>, kind |-> kind]

StoreClassificationReplies ==
    { Raised,
      One(Classified("RuntimeError", JArr(<<AISolution>>),
                     JArr(<<JStr("recursion")>>)), "ok"),
      One(Classified("NameError", JArr(<<AISolution>>),
                     JArr(<<JStr("variable scope")>>)), "ok"),
      One(Classified("RuntimeError", JArr(<<AISolution>>), JStr("recursion")),
          "concepts not a list") }

StoreResourceReplies ==
    { Raised,
      One(JArr(<<AIResource("r1"), AIResource("r2"), AIResource("r3"),
                 AIResource("r4")>>), "ok") }

StoreStatisticsReplies ==
    { Raised,
      One(JObj([key \in {"common_contexts", "related_errors"} |->
                  JArr(<<JStr(key)>>)]), "ok") }

\* The replies after which the call site's try block raises.
FailureKinds == {"raise", "not json", "wrong shape"}

\* ------------------------------------------------------------ the handler

Init ==
    /\ credential \in BOOLEAN
    /\ ERROR_HISTORY = EmptyDict
    /\ clock = 1
    /\ started = 0
    /\ resolved = EmptyDict
    /\ owner = EmptyDict
    /\ reqs = [r \in Slots |-> IdleReq]

\* ErrorResponse(...) of lines 718-724 and 728-740.
ErrorResponse(q, learning_resources, statistics) ==
    [error_type |-> q.error_type,
     solutions |-> q.solutions,
     concepts |-> [i \in 1..Len(q.concepts.items) |-> q.concepts.items[i].s],
     learning_resources |-> learning_resources,
     statistics |-> statistics]

Respond(q, learning_resources, statistics) ==
    [q EXCEPT !.pc = "RESPONDING", !.status = 200,
              !.learning_resources = learning_resources,
              !.statistics = statistics,
              !.response = Some(ErrorResponse(q, learning_resources, statistics))]

Escapes_unhandled(q) == [q EXCEPT !.pc = "SERVER_ERROR", !.status = 500]

\* An exception leaves analyze_with_gemini.  On the catalog path the call is
\* outside any try (an unhandled error); on the classification path it is
\* inside the try of analyze_error, whose except raises the 404.
Escapes(q) ==
    IF q.catalog # 0
    THEN [q EXCEPT !.pc = "SERVER_ERROR", !.status = 500]
    ELSE [q EXCEPT !.pc = "NOT_FOUND", !.status = 404]

ExceptBranch_dropsolutions(q) ==
    Respond([q EXCEPT !.solutions = <<>>], IntegrationFallback(q.error_type),
            EmptyStatistics)

ExceptBranch_raises(q) == Escapes(q)

\* The except branch of analyze_with_gemini (lines 725-740).
ExceptBranch(q) ==
    IF ValidConcepts(q.concepts)
    THEN Respond(q, IntegrationFallback(q.error_type), EmptyStatistics)
    ELSE Escapes(q)

Finish_retry(q) ==
    [q EXCEPT !.pc = "await_stats",
              !.calls = Append(@, [call |-> "statistics", reply |-> "pending"])]

\* The return of analyze_with_gemini (lines 718-724).
Finish(q) ==
    IF ValidConcepts(q.concepts)
    THEN Respond(q, q.learning_resources, q.statistics)
    ELSE ExceptBranch(q)

Issue(q, call) ==
    [q EXCEPT !.calls = Append(@, [call |-> call, reply |-> "pending"])]

\* Bookkeeping: what the service sent in answer to the last call.
Replied(q, reply) == [q EXCEPT !.calls[Len(q.calls)].reply = reply.kind]

EnterAugmenting_nocredentialcheck(q, cred) ==
    IF ~Joinable(q.concepts) THEN ExceptBranch(q)
    ELSE [Issue(q, "resources") EXCEPT !.pc = "await_resources"]

\* analyze_with_gemini up to its first await: setup_gemini, then the prompt
\* of get_learning_resources, then the call.
EnterAugmenting(q, cred) ==
    IF ~cred THEN ExceptBranch(q)
    ELSE IF ~Joinable(q.concepts) THEN ExceptBranch(q)
    ELSE [Issue(q, "resources") EXCEPT !.pc = "await_resources"]

ContextSolution(analysis, code_context) ==
    [fix |-> analysis.specific_fix[1],
     explanation |-> analysis.specific_issue[1],
     confidence |-> ContextConfidence,
     code_example |-> <<"# Based on your specific code:", code_context>>]

BuildSolutions_append(catalog, analysis, code_context) ==
    IF analysis # None /\ analysis[1].specific_issue # None
    THEN catalog \o <<ContextSolution(analysis[1], code_context)>>
    ELSE catalog

\* Lines 813-826: the catalog's solutions, with the context-specific one
\* inserted at the front when the analysis names an issue.
BuildSolutions(catalog, analysis, code_context) ==
    IF analysis # None /\ analysis[1].specific_issue # None
    THEN <<ContextSolution(analysis[1], code_context)>> \o catalog
    ELSE catalog

\* The catalog solutions as Solution objects: the code example is data the
\* handler only copies.
CatalogSolutions(i) == ERROR_PATTERNS[i].solutions

CatalogConcepts(i) ==
    JArr([j \in 1..Len(ERROR_PATTERNS[i].concepts) |->
            JStr(ERROR_PATTERNS[i].concepts[j])])

ResolvedCount(res, project_id, error_type) ==
    IF <<project_id, error_type>> \in DOMAIN res
    THEN res[<<project_id, error_type>>] ELSE 0

\* Bookkeeping: the request is the next one of its (project id, error type).
CountResolved(res, project_id, error_type) ==
    IF ~Truthy(project_id) THEN res
    ELSE [key \in DOMAIN res \cup {<<project_id[1], error_type>>} |->
            IF key = <<project_id[1], error_type>>
            THEN ResolvedCount(res, project_id[1], error_type) + 1
            ELSE res[key]]

FreeSlot == Min({r \in Slots : Free(reqs[r])})

\* A coroutine that has answered is gone when the event loop next runs
\* anything: its slot is empty again.
Retire(rs) == [r \in Slots |-> IF Terminal(rs[r]) THEN IdleReq ELSE rs[r]]

IsLive(q) == q.pc # "idle"

\* The slots are a list of the live coroutines in order of arrival.
Compact(rs) ==
    LET live == SelectSeq(rs, IsLive)
    IN [r \in Slots |-> IF r <= Len(live) THEN live[r] ELSE IdleReq]

\* The slots after the coroutine of slot r has run to state q.
Ran(rs, r, q) ==
    Compact([slot \in Slots |-> IF slot = r THEN q ELSE Retire(rs)[slot]])

\* A request arrives and analyze_error runs to its first await: the catalog
\* scan and, on a match, the context analysis and the entry into
\* analyze_with_gemini; on a miss, setup_gemini and the classification call.
Start(in) ==
    /\ \E r \in Slots : Free(reqs[r])
    /\ started' = started + 1
    /\ UNCHANGED <<credential, ERROR_HISTORY, clock, owner>>
    /\ LET i == FirstMatch(in.error_message)
           q0 == [IdleReq EXCEPT !.input = in, !.catalog = i]
       IN IF i # 0
          THEN LET et == ERROR_PATTERNS[i].label
               IN \E analysis \in
                        IF TruthyText(in.code_context)
                        THEN analyze_code_context(et, in.error_message, in.code_context)
                        ELSE {None} :
                       reqs' = Ran(reqs, FreeSlot,
                          EnterAugmenting(
                            [q0 EXCEPT
                               !.error_type = et,
                               !.solutions = BuildSolutions(CatalogSolutions(i), analysis,
                                                            in.code_context[1]),
                               !.concepts = CatalogConcepts(i)],
                            credential))
          ELSE reqs' = Ran(reqs, FreeSlot,
                     IF ~credential
                     THEN [q0 EXCEPT !.pc = "NOT_FOUND", !.status = 404]
                     ELSE [Issue(q0, "classify") EXCEPT !.pc = "await_classify"])

\* The classification call returns: decode and convert, then enter
\* analyze_with_gemini; any raise is the 404.
ClassifyReturn(r, reply) ==
    /\ reqs[r].pc = "await_classify"
    /\ UNCHANGED <<credential, ERROR_HISTORY, clock, owner, started>>
    /\ LET q == Replied(reqs[r], reply)
           c == ParseClassification(reply)
       IN IF c = None
          THEN reqs' = Ran(reqs, r, [q EXCEPT !.pc = "NOT_FOUND", !.status = 404])
          ELSE reqs' = Ran(reqs, r,
                     EnterAugmenting(
                       [q EXCEPT !.error_type = c[1].error_type,
                                 !.solutions = c[1].solutions,
                                 !.concepts = c[1].concepts],
                       credential))

StoreRead_beforeappend(before, after) == before

\* The store the statistics are read from: the one the append produced (the
\* update of lines 630-641 precedes the read of lines 644-651).
StoreRead(before, after) == after

\* The learning-resources call returns; get_learning_resources ends and
\* analyze_error_patterns runs to its await (or to its return when it makes
\* no call): the append, the statistics and the statistics prompt.
ResourcesReturn(r, reply) ==
    /\ reqs[r].pc = "await_resources"
    /\ UNCHANGED <<credential, started, resolved>>
    /\ LET q == Replied(reqs[r], reply)
           pid == q.input.project_id
           rec == [timestamp |-> clock,
                   error_message |-> q.input.error_message,
                   code_context |-> q.input.code_context]
           h2 == IF Truthy(pid)
                 THEN AppendRecord(ERROR_HISTORY, pid[1], q.error_type, rec)
                 ELSE ERROR_HISTORY
           stats == ComputeStatistics(StoreRead(ERROR_HISTORY, h2), pid, q.error_type)
           q1 == [q EXCEPT
                    !.learning_resources = ParseResources(reply, q.error_type, q.concepts),
                    !.statistics = stats,
                    !.stamp = IF Truthy(pid) THEN Some(clock) ELSE None,
                    !.appends = IF Truthy(pid) THEN @ + 1 ELSE @]
       IN /\ ERROR_HISTORY' = h2
          /\ clock' = IF Truthy(pid) THEN clock + 1 ELSE clock
          /\ owner' = IF Truthy(pid)
                      THEN [ts \in DOMAIN owner \cup {clock} |->
                              IF ts = clock
                              THEN [project_id |-> pid[1], error_type |-> q.error_type]
                              ELSE owner[ts]]
                      ELSE owner
          /\ reqs' = Ran(reqs, r,
                IF Truthy(pid) /\ stats.frequency # None /\ stats.frequency[1] > 1
                THEN [Issue(q1, "statistics") EXCEPT
                        !.pc = "await_stats",
                        !.prompt_history =
                           LastN(h2[pid[1]][q.error_type], HistoryWindow)]
                ELSE Finish(q1))

\* The statistics call returns: analyze_error_patterns ends, and
\* analyze_with_gemini builds the response.
StatsReturn(r, reply) ==
    /\ reqs[r].pc = "await_stats"
    /\ UNCHANGED <<credential, ERROR_HISTORY, clock, owner, started, resolved>>
    /\ LET q == Replied(reqs[r], reply)
       IN reqs' = Ran(reqs, r,
             Finish([q EXCEPT !.statistics = ParseStatistics(reply, q.statistics)]))

\* The process stops accepting after MaxRequests requests.
Accept(in) ==
    /\ started < MaxRequests
    /\ Start(in)
    /\ UNCHANGED resolved

Classify(r, reply) == ClassifyReturn(r, reply) /\ UNCHANGED resolved

Next ==
    \/ \E in \in StoreInputs : Accept(in)
    \/ \E r \in Slots, reply \in StoreClassificationReplies : Classify(r, reply)
    \/ \E r \in Slots, reply \in StoreResourceReplies : ResourcesReturn(r, reply)
    \/ \E r \in Slots, reply \in StoreStatisticsReplies : StatsReturn(r, reply)

Spec == Init /\ [][Next]_vars

\* Every call to the service returns: the thread of asyncio.to_thread ends
\* with a text or an exception, and the event loop then resumes the
\* coroutine that awaits it.
CallsReturn ==
    \A r \in Slots :
       /\ WF_vars(\E reply \in StoreClassificationReplies : Classify(r, reply))
       /\ WF_vars(\E reply \in StoreResourceReplies : ResourcesReturn(r, reply))
       /\ WF_vars(\E reply \in StoreStatisticsReplies : StatsReturn(r, reply))

FairSpec == Spec /\ CallsReturn

\* Requests served one at a time: a request is accepted only when no other
\* is suspended at an await.  Each request whose error type becomes known is
\* counted as the next one of its (project id, error type).
AcceptSeq(in) ==
    /\ \A r \in Slots : Free(reqs[r])
    /\ started < MaxRequests
    /\ Start(in)
    /\ resolved' =
          IF FirstMatch(in.error_message) # 0
          THEN CountResolved(resolved, in.project_id,
                             ERROR_PATTERNS[FirstMatch(in.error_message)].label)
          ELSE resolved

ClassifySeq(r, reply) ==
    /\ ClassifyReturn(r, reply)
    /\ resolved' =
          IF ParseClassification(reply) # None
          THEN CountResolved(resolved, reqs[r].input.project_id,
                             ParseClassification(reply)[1].error_type)
          ELSE resolved

NextSeq ==
    \/ \E in \in StoreInputs : AcceptSeq(in)
    \/ \E r \in Slots, reply \in StoreClassificationReplies : ClassifySeq(r, reply)
    \/ \E r \in Slots, reply \in StoreResourceReplies : ResourcesReturn(r, reply)
    \/ \E r \in Slots, reply \in StoreStatisticsReplies : StatsReturn(r, reply)

SeqSpec == Init /\ [][NextSeq]_vars

\* ------------------------------------------------------ one request alone
\* One request, with any body and any replies, followed from its arrival to
\* its answer.  It arrives at a process whose store holds what n earlier
\* requests of project p1 with the NameError message left there
\* (n <= MaxPrior), each served to its end before the next.

PriorInput ==
    [error_message |-> <<NameFoo>>, code_context |-> None, project_id |-> Some("p1")]

PriorRecord(ts) ==
    [timestamp |-> ts, error_message |-> PriorInput.error_message,
     code_context |-> PriorInput.code_context]

RECURSIVE PriorStore(_)
PriorStore(n) ==
    IF n = 0 THEN EmptyDict
    ELSE AppendRecord(PriorStore(n - 1), "p1", "NameError", PriorRecord(n))

InitOne ==
    /\ credential \in BOOLEAN
    /\ \E n \in 0..MaxPrior :
         /\ ERROR_HISTORY = (IF credential THEN PriorStore(n) ELSE EmptyDict)
         /\ clock = (IF credential THEN n + 1 ELSE 1)
         /\ owner = (IF credential
                     THEN [ts \in 1..n |-> [project_id |-> "p1", error_type |-> "NameError"]]
                     ELSE EmptyDict)
         /\ started = n
         /\ resolved = EmptyDict
    /\ reqs = [r \in Slots |-> IdleReq]

AcceptOne(in) ==
    /\ \A r \in Slots : reqs[r].pc = "idle"
    /\ Start(in)
    /\ UNCHANGED resolved

NextOne ==
    \/ \E in \in Inputs : AcceptOne(in)
    \/ \E r \in Slots, reply \in ClassificationReplies : Classify(r, reply)
    \/ \E r \in Slots, reply \in ResourceReplies : ResourcesReturn(r, reply)
    \/ \E r \in Slots, reply \in StatisticsReplies : StatsReturn(r, reply)

OneSpec == InitOne /\ [][NextOne]_vars

\* ------------------------------------------------------------------ claims

Live == {r \in Slots : reqs[r].pc # "idle"}

Answered == {r \in Slots : reqs[r].pc = "RESPONDING"}

CatalogHit(q) == \E i \in 1..Len(ERROR_PATTERNS) : ReSearch(ERROR_PATTERNS[i].label, q.input.error_message)

\* C1: the error type of every response to a message some catalog regex
\* matches is the label of an entry whose regex matches the message and
\* before which, in declaration order, no entry's regex matches it.
C1_FirstDeclaredMatch ==
    \A r \in Answered :
       CatalogHit(reqs[r]) =>
          \E i \in 1..Len(ERROR_PATTERNS) :
             /\ reqs[r].response[1].error_type = ERROR_PATTERNS[i].label
             /\ ReSearch(ERROR_PATTERNS[i].label, reqs[r].input.error_message)
             /\ \A j \in 1..(i - 1) :
                   ~ReSearch(ERROR_PATTERNS[j].label, reqs[r].input.error_message)

\* A response to "list index out of range ... name 'foo' is not defined":
\* the IndexError text comes first in the message, NameError first in the
\* catalog.
C1_Witness ==
    \E r \in Answered :
       /\ reqs[r].input.error_message = <<IndexOut, NameFoo>>
       /\ reqs[r].response[1].error_type = "NameError"

\* C2: a request whose message a catalog regex matches ends with a response
\* whose error type is the label of a matching entry (NameError when the
\* NameError regex matches) and whose solutions are not empty, whatever the
\* context, the project id, the credential and the replies of the service.
C2_MatchedTypeAndSolutions ==
    \A r \in Live :
       (CatalogHit(reqs[r]) /\ Terminal(reqs[r])) =>
          /\ reqs[r].pc = "RESPONDING"
          /\ ReSearch(reqs[r].response[1].error_type, reqs[r].input.error_message)
          /\ (ReSearch("NameError", reqs[r].input.error_message)
                => reqs[r].response[1].error_type = "NameError")
          /\ Len(reqs[r].response[1].solutions) >= 1

\* A NameError response given without the credential, to a request with a
\* context and a project id.
C2_Witness ==
    \E r \in Answered :
       /\ ~credential
       /\ reqs[r].response[1].error_type = "NameError"
       /\ reqs[r].input.code_context = Some(TypoContext)
       /\ reqs[r].input.project_id = Some("p1")
       /\ Len(reqs[r].response[1].solutions) = 2

IssueFound(q) ==
    /\ TruthyText(q.input.code_context)
    /\ \E a \in analyze_code_context(ERROR_PATTERNS[q.catalog].label,
                                     q.input.error_message, q.input.code_context) :
          a # None /\ a[1].specific_issue # None

\* C9: in a response to a catalog-matching request, when the context
\* analysis names an issue the solutions are one context-derived solution
\* (confidence 0.95, explaining that issue) followed by the catalog entry's
\* solutions unchanged; otherwise they are the catalog entry's solutions.
C9_ContextSolutionFirst ==
    \A r \in Answered :
       reqs[r].catalog # 0 =>
          LET q == reqs[r]
              sols == q.response[1].solutions
              cat == ERROR_PATTERNS[q.catalog].solutions
          IN IF IssueFound(q)
             THEN /\ Len(sols) = Len(cat) + 1
                  /\ sols[1].confidence = 95
                  /\ \E a \in analyze_code_context(ERROR_PATTERNS[q.catalog].label,
                                                   q.input.error_message,
                                                   q.input.code_context) :
                        /\ sols[1].explanation = a[1].specific_issue[1]
                        /\ sols[1].fix = a[1].specific_fix[1]
                  /\ \A i \in 1..Len(cat) : sols[i + 1] = cat[i]
             ELSE sols = cat

\* An IndexError response whose first solution says index 3 is out of range
\* for the 3-item list xs, followed by the catalog's solution.
C9_Witness ==
    \E r \in Answered :
       /\ reqs[r].input.code_context = Some(ListContext("3"))
       /\ Len(reqs[r].response[1].solutions) = 2
       /\ reqs[r].response[1].solutions[1].explanation =
             [k |-> "index out of range", index |-> 3, list_name |-> xs]
       /\ reqs[r].response[1].solutions[1].fix =
             [k |-> "list length", list_name |-> xs, list_length |-> 3]
       /\ reqs[r].response[1].solutions[2] = ERROR_PATTERNS[3].solutions[1]

CallsOf(q, call) == {i \in 1..Len(q.calls) : q.calls[i].call = call}

\* The call was made and what came back made the call site's try raise.
CallFailed(q, call) ==
    \E i \in CallsOf(q, call) : q.calls[i].reply \in FailureKinds

\* C4: a request whose message a catalog regex matches never ends in
\* NOT_FOUND (nor in an unhandled error): it ends with a 200 response.  In
\* that response the learning resources are the single generic fallback when
\* the credential is absent and the three fallback resources when the
\* resources call raised or its text was not the JSON expected; and
\* common_contexts and related_errors are absent when the credential is
\* absent, when no statistics call was made, or when that call raised or
\* its text was not the JSON expected.
C4_AIFailuresNeverFailTheRequest ==
    \A r \in Live :
       CatalogHit(reqs[r]) =>
          LET q == reqs[r]
          IN /\ q.pc \notin {"NOT_FOUND", "SERVER_ERROR"}
             /\ q.pc = "RESPONDING" =>
                  /\ q.status = 200 /\ q.response # None
                  /\ ~credential =>
                        /\ q.response[1].learning_resources
                              = IntegrationFallback(q.response[1].error_type)
                        /\ q.response[1].statistics = EmptyStatistics
                  /\ CallFailed(q, "resources") =>
                        q.response[1].learning_resources
                           = FallbackResources(q.response[1].error_type,
                                               CatalogConcepts(q.catalog))
                  /\ (CallFailed(q, "statistics") \/ CallsOf(q, "statistics") = {}) =>
                        /\ q.response[1].statistics.common_contexts = None
                        /\ q.response[1].statistics.related_errors = None

\* A 200 response after the resources call raised and the statistics call
\* returned JSON of the wrong shape.
C4_Witness ==
    \E r \in Answered :
       /\ reqs[r].catalog # 0
       /\ Len(reqs[r].calls) = 2
       /\ reqs[r].calls[1].reply = "raise"
       /\ reqs[r].calls[2].reply = "wrong shape"
       /\ reqs[r].status = 200

\* C5: a request whose message no catalog regex matches and whose
\* classification step fails (the credential is absent, the call raises, or
\* its text is not the JSON expected) ends with 404 and no ErrorResponse.
C5_ClassificationFailureIs404 ==
    \A r \in Live :
       LET q == reqs[r]
       IN (~CatalogHit(q) /\ (~credential \/ CallFailed(q, "classify"))) =>
             /\ q.pc = "NOT_FOUND"
             /\ q.status = 404
             /\ q.response = None

\* A 404 after the classification call returned a JSON array.
C5_Witness ==
    \E r \in Live :
       /\ reqs[r].pc = "NOT_FOUND"
       /\ credential
       /\ Len(reqs[r].calls) = 1
       /\ reqs[r].calls[1].reply = "wrong shape"

AllNotJson(q) ==
    /\ q.calls # <<>>
    /\ \A i \in 1..Len(q.calls) : q.calls[i].reply = "not json"

\* C6 as stated: in a response to a catalog-matching request every AI call
\* of which returned text that is not valid JSON, the learning resources are
\* the three fallback resources and the statistics are empty.
C6_EmptyStatistics ==
    \A r \in Answered :
       (reqs[r].catalog # 0 /\ AllNotJson(reqs[r])) =>
          /\ reqs[r].status = 200
          /\ reqs[r].response[1].learning_resources
                = FallbackResources(reqs[r].response[1].error_type,
                                    CatalogConcepts(reqs[r].catalog))
          /\ reqs[r].response[1].statistics = EmptyStatistics

\* C6 as amended: in such a response the learning resources are the three
\* fallback resources, common_contexts and related_errors are absent, and
\* frequency is absent exactly when the request has no (non-empty) project
\* id: with one, frequency is the length of the store's list for its
\* (project id, error type) as of its own record, and last_occurrence is
\* absent exactly when that length is 1.
C6_FallbackAndStoreStatistics ==
    \A r \in Answered :
       (reqs[r].catalog # 0 /\ AllNotJson(reqs[r])) =>
          LET q == reqs[r]
              st == q.response[1].statistics
          IN /\ q.status = 200
             /\ q.response[1].learning_resources
                   = FallbackResources(q.response[1].error_type,
                                       CatalogConcepts(q.catalog))
             /\ st.common_contexts = None
             /\ st.related_errors = None
             /\ IF Truthy(q.input.project_id)
                THEN /\ st.frequency # None
                     /\ st.frequency[1] >= 1
                     /\ ERROR_HISTORY[q.input.project_id[1]][q.error_type]
                           [st.frequency[1]].timestamp = q.stamp[1]
                     /\ (st.last_occurrence = None) <=> (st.frequency[1] = 1)
                ELSE st.frequency = None /\ st.last_occurrence = None

\* A response after two calls that both returned text that is not JSON,
\* reporting frequency 2.
C6_Witness ==
    \E r \in Answered :
       /\ reqs[r].catalog # 0
       /\ Len(reqs[r].calls) = 2
       /\ AllNotJson(reqs[r])
       /\ reqs[r].response[1].statistics.frequency = Some(2)
       /\ reqs[r].response[1].statistics.common_contexts = None

\* C8 as stated: with the credential absent no request receives a 200.
C8_NoSuccessWithoutCredential ==
    ~credential => \A r \in Live : reqs[r].status # 200

\* C8 as amended: the credential is looked up inside each request.  With it
\* absent no AI call is made and nothing is stored; a request the catalog
\* matches receives a 200 response with the catalog's error type, the single
\* generic fallback resource and empty statistics; a request it does not
\* match receives 404.
C8_CredentialCheckedPerRequest ==
    ~credential =>
       /\ ERROR_HISTORY = EmptyDict
       /\ \A r \in Live :
             LET q == reqs[r]
             IN /\ q.calls = <<>>
                /\ IF CatalogHit(q)
                   THEN /\ q.pc = "RESPONDING" /\ q.status = 200
                        /\ ReSearch(q.response[1].error_type, q.input.error_message)
                        /\ q.response[1].learning_resources
                              = IntegrationFallback(q.response[1].error_type)
                        /\ q.response[1].statistics = EmptyStatistics
                   ELSE q.pc = "NOT_FOUND" /\ q.status = 404 /\ q.response = None

\* A 200 response given without the credential.
C8_Witness ==
    \E r \in Answered :
       /\ ~credential
       /\ reqs[r].status = 200
       /\ reqs[r].response[1].error_type = "IndexError"
       /\ reqs[r].input.project_id = Some("p2")

\* C3: when requests are served one at a time with the credential set, the
\* response to the k-th request of a (non-empty project id, error type)
\* reports frequency k; last_occurrence is absent for k = 1 and for k >= 2
\* is the timestamp of the record the (k-1)-th request stored, which is not
\* the timestamp the k-th request stored itself.
C3_SequentialFrequency ==
    credential =>
       \A r \in Answered :
          Truthy(reqs[r].input.project_id) =>
             LET q == reqs[r]
                 st == q.response[1].statistics
                 k == ResolvedCount(resolved, q.input.project_id[1], q.error_type)
                 recs == HistoryOf(ERROR_HISTORY, q.input.project_id[1], q.error_type)
             IN /\ st.frequency = Some(k)
                /\ Len(recs) = k
                /\ recs[k].timestamp = q.stamp[1]
                /\ k = 1 => st.last_occurrence = None
                /\ k >= 2 => /\ st.last_occurrence = Some(recs[k - 1].timestamp)
                             /\ st.last_occurrence # q.stamp

\* The response to the third request of (p1, NameError): frequency 3 and the
\* timestamp of the second record, which is neither the first nor the third.
C3_Witness ==
    \E r \in Answered :
       /\ credential
       /\ reqs[r].input.project_id = Some("p1")
       /\ reqs[r].response[1].statistics.frequency = Some(3)
       /\ reqs[r].response[1].statistics.last_occurrence
             = Some(ERROR_HISTORY["p1"][reqs[r].error_type][2].timestamp)
       /\ ERROR_HISTORY["p1"][reqs[r].error_type][1].timestamp
             # ERROR_HISTORY["p1"][reqs[r].error_type][2].timestamp

\* Every record of the store, with the keys it is filed under.
Filed ==
    {[project_id |-> p, error_type |-> e, i |-> i] :
        p \in DOMAIN ERROR_HISTORY,
        e \in UNION {DOMAIN ERROR_HISTORY[x] : x \in DOMAIN ERROR_HISTORY},
        i \in 1..MaxRequests + 1}

InStore(f) ==
    /\ f.error_type \in DOMAIN ERROR_HISTORY[f.project_id]
    /\ f.i <= Len(ERROR_HISTORY[f.project_id][f.error_type])

RecordAt(f) == ERROR_HISTORY[f.project_id][f.error_type][f.i]

\* The timestamps of the records requests of (project_id, error_type) stored.
StampsOf(project_id, error_type) ==
    {ts \in DOMAIN owner :
        owner[ts] = [project_id |-> project_id, error_type |-> error_type]}

Max(S) == CHOOSE x \in S : \A y \in S : y <= x

\* The store is partitioned: each record is filed under the project id and
\* error type of the request that stored it, and the statistics and the
\* statistics prompt of a request are drawn from the records stored by
\* requests of its own project id and error type.
C7_Partition ==
    /\ \A f \in Filed :
          InStore(f) =>
             owner[RecordAt(f).timestamp]
                = [project_id |-> f.project_id, error_type |-> f.error_type]
    /\ \A r \in Live :
          (Truthy(reqs[r].input.project_id) /\ reqs[r].stamp # None) =>
             LET q == reqs[r]
                 mine == {ts \in StampsOf(q.input.project_id[1], q.error_type) :
                             ts <= q.stamp[1]}
             IN /\ q.statistics.frequency = Some(Cardinality(mine))
                /\ q.statistics.last_occurrence =
                      (IF mine = {q.stamp[1]} THEN None
                       ELSE Some(Max(mine \ {q.stamp[1]})))
                /\ \A i \in 1..Len(q.prompt_history) :
                      q.prompt_history[i].timestamp \in mine

\* A step changes the history of a project only when a request carrying that
\* project id stores its record in that step.
C7_Step ==
    \A p \in DOMAIN ERROR_HISTORY' :
       (p \notin DOMAIN ERROR_HISTORY \/ ERROR_HISTORY'[p] # ERROR_HISTORY[p]) =>
          \E r \in Slots :
             /\ reqs'[r].stamp = Some(clock)
             /\ reqs'[r].input.project_id = Some(p)

\* C7: the history is partitioned by project id: a request carrying project
\* id P leaves the history of every other project id unchanged, and its
\* frequency, its last_occurrence and the records it sends to the service
\* come only from records stored by requests that carried P (and resolved to
\* the same error type).
C7_HistoryPartitionedByProject == [](C7_Partition) /\ [][C7_Step]_vars

\* Both projects have a NameError history, and a request of p2 reports
\* frequency 1 although the store holds two records of p1.
C7_Witness ==
    \E r \in Live :
       /\ reqs[r].input.project_id = Some("p2")
       /\ reqs[r].statistics.frequency = Some(1)
       /\ "p1" \in DOMAIN ERROR_HISTORY
       /\ Len(HistoryOf(ERROR_HISTORY, "p1", reqs[r].error_type)) = 2
       /\ Len(HistoryOf(ERROR_HISTORY, "p2", reqs[r].error_type)) = 1

\* The resources call has returned, so analyze_error_patterns has run.
ReachedStatistics(q) ==
    \E i \in CallsOf(q, "resources") : q.calls[i].reply # "pending"

\* C10 as stated: every request with a non-empty project id stores exactly
\* one record, counted in the frequency it reports.
C10_EveryRequestStores ==
    \A r \in Live :
       (Truthy(reqs[r].input.project_id) /\ Terminal(reqs[r])) =>
          /\ reqs[r].appends = 1
          /\ reqs[r].statistics.frequency # None

\* C10 as amended: a request with a non-empty project id that reaches the
\* statistics step (the credential is set and its error type is known, from
\* the catalog or from a successful AI classification) stores exactly one
\* record under its (project id, error type) before its statistics are
\* computed: the frequency it reports is the position of its own record.  A
\* request that does not reach that step (the credential is absent, or the
\* classification failed) stores nothing.
C10_StoresOnceBeforeStatistics ==
    \A r \in Live :
       Truthy(reqs[r].input.project_id) =>
          LET q == reqs[r]
          IN IF ReachedStatistics(q)
             THEN /\ q.appends = 1
                  /\ q.stamp # None
                  /\ q.statistics.frequency # None
                  /\ q.statistics.frequency[1] >= 1
                  /\ LET recs == HistoryOf(ERROR_HISTORY, q.input.project_id[1],
                                           q.error_type)
                     IN /\ q.statistics.frequency[1] <= Len(recs)
                        /\ recs[q.statistics.frequency[1]] =
                              [timestamp |-> q.stamp[1],
                               error_message |-> q.input.error_message,
                               code_context |-> q.input.code_context]
             ELSE /\ q.appends = 0
                  /\ q.stamp = None
                  /\ q.statistics.frequency = None
                  /\ (Terminal(q) =>
                         ~credential \/ (q.catalog = 0 /\ CallFailed(q, "classify")))

\* A request of p1 suspended at the statistics call: it has stored one
\* record, the second of its list, and reports frequency 2.
C10_Witness ==
    \E r \in Live :
       /\ reqs[r].pc = "await_stats"
       /\ reqs[r].input.project_id = Some("p1")
       /\ reqs[r].appends = 1
       /\ reqs[r].statistics.frequency = Some(2)
       /\ ERROR_HISTORY["p1"][reqs[r].error_type][2].timestamp = reqs[r].stamp[1]

\* The classification call returned a text the handler decoded and converted.
ClassificationAccepted(q) ==
    \E i \in CallsOf(q, "classify") : q.calls[i].reply \notin FailureKinds \cup {"pending"}

Stored == {r \in Live : Truthy(reqs[r].input.project_id) /\ reqs[r].stamp # None}

\* The positions of the record of request q in the list of its pair.
PositionsOf(q) ==
    LET recs == HistoryOf(ERROR_HISTORY, q.input.project_id[1], q.error_type)
    IN {k \in 1..Len(recs) : recs[k].timestamp = q.stamp[1]}

\* The statistics request q holds agree with the history as of its own
\* append: its record is at exactly one position k of the list of its
\* (project id, error type); k is the number of records requests of that
\* pair had stored up to then (no update is lost); the frequency is k and
\* last_occurrence is the timestamp of the record at k - 1 (absent for k = 1).
AgreesWithOwnAppend(q) ==
    LET recs == HistoryOf(ERROR_HISTORY, q.input.project_id[1], q.error_type)
        mine == {ts \in StampsOf(q.input.project_id[1], q.error_type) :
                    ts <= q.stamp[1]}
    IN /\ Cardinality(PositionsOf(q)) = 1
       /\ \A k \in PositionsOf(q) :
             /\ k = Cardinality(mine)
             /\ q.statistics.frequency = Some(k)
             /\ q.statistics.last_occurrence =
                   (IF k = 1 THEN None ELSE Some(recs[k - 1].timestamp))

\* Two requests of one (project id, error type) are suspended at once, each
\* after its append.
InFlightTogether(r1, r2) ==
    /\ r1 # r2
    /\ ~Terminal(reqs[r1]) /\ ~Terminal(reqs[r2])
    /\ reqs[r1].input.project_id = reqs[r2].input.project_id
    /\ reqs[r1].error_type = reqs[r2].error_type

\* C12 as stated, on the states it is about: when two requests of the same
\* (project id, error type) are in flight together, the appends and reads
\* have interleaved so that one of them holds a frequency or last_occurrence
\* that disagrees with the history as of its own append.
C12_InterleavingTearsStatistics ==
    \A r1 \in Stored, r2 \in Stored :
       InFlightTogether(r1, r2) =>
          ~AgreesWithOwnAppend(reqs[r1]) \/ ~AgreesWithOwnAppend(reqs[r2])

\* C12 as amended: under every interleaving of the requests, the statistics
\* of every request agree with the history as of its own append, also while
\* other requests of the same pair are in flight: the append and the read
\* run in one step of the event loop, with no await between them.
C12_StatisticsAgreeWithOwnAppend ==
    \A r \in Stored : AgreesWithOwnAppend(reqs[r])

\* Two requests of the same (project id, error type) suspended at their
\* statistics calls at once, the one that arrived later having stored its
\* record first: they report frequencies 2 and 3.
C12_Witness ==
    \E r1 \in Stored, r2 \in Stored :
       /\ r1 < r2
       /\ InFlightTogether(r1, r2)
       /\ reqs[r1].pc = "await_stats" /\ reqs[r2].pc = "await_stats"
       /\ reqs[r2].stamp[1] < reqs[r1].stamp[1]
       /\ reqs[r2].statistics.frequency = Some(2)
       /\ reqs[r1].statistics.frequency = Some(3)

\* C13: the statistics call is issued for a request only when its project
\* id is non-empty and its frequency exceeds 1, and at most once.  The prompt
\* of the call carries the last min(5, n) of the n records its (project id,
\* error type) list held when the call was issued: never more than 5, in the
\* order of the list, the last of them the record of the request itself.
C13_StatisticsCallAndPromptWindow ==
    \A r \in Live :
       LET q == reqs[r]
       IN IF CallsOf(q, "statistics") = {}
          THEN q.prompt_history = <<>>
          ELSE /\ Cardinality(CallsOf(q, "statistics")) = 1
               /\ Truthy(q.input.project_id)
               /\ q.statistics.frequency # None
               /\ q.statistics.frequency[1] > 1
               /\ LET n == q.statistics.frequency[1]
                      recs == HistoryOf(ERROR_HISTORY, q.input.project_id[1], q.error_type)
                      w == Len(q.prompt_history)
                  IN /\ w = (IF n < HistoryWindow THEN n ELSE HistoryWindow)
                     /\ w <= 5
                     /\ n <= Len(recs)
                     /\ q.prompt_history = SubSeq(recs, n - w + 1, n)
                     /\ q.prompt_history[w] =
                           [timestamp |-> q.stamp[1],
                            error_message |-> q.input.error_message,
                            code_context |-> q.input.code_context]

\* A request whose record is the seventh of its list, suspended at the
\* statistics call: the prompt carries records 3 to 7.
C13_Witness ==
    \E r \in Live :
       /\ reqs[r].pc = "await_stats"
       /\ reqs[r].statistics.frequency = Some(7)
       /\ Len(reqs[r].prompt_history) = 5
       /\ reqs[r].prompt_history[1].timestamp = 3
       /\ reqs[r].prompt_history[5].timestamp = reqs[r].stamp[1]
       /\ reqs[r].stamp = Some(7)

\* The requests the catalog resolved to NameError that carry a context.
NameErrorWithContext ==
    {r \in Live : reqs[r].catalog = 1 /\ TruthyText(reqs[r].input.code_context)}

\* The word tokens of the context of q.
WordTokens(q) ==
    {q.input.code_context[1][i].s :
        i \in {j \in 1..Len(q.input.code_context[1]) :
                  q.input.code_context[1][j].t = "w"}}

\* The name between the quotes of the first NameError text of the message.
UndefinedName(q) ==
    LET msg == q.input.error_message
        at == CHOOSE i \in 1..Len(msg) :
                 /\ msg[i].k = "name '%' is not defined" /\ msg[i].w # <<>>
                 /\ \A j \in 1..(i - 1) :
                       ~(msg[j].k = "name '%' is not defined" /\ msg[j].w # <<>>)
    IN msg[at].w

\* The length of v is within 2 of that of u, and v and u differ at no more
\* than 2 of the positions both have.
CloseTo(v, u) ==
    /\ Len(v) - Len(u) \in -2..2
    /\ Cardinality({i \in 1..Len(v) : i <= Len(u) /\ v[i] # u[i]}) <= 2

\* The solutions of q are those of a typo finding that lists the words S, or
\* the catalog's alone when S is empty.
TypoSolutionLists(q, S) ==
    IF S = {}
    THEN q.solutions = ERROR_PATTERNS[1].solutions
    ELSE /\ Len(q.solutions) = 2
         /\ q.solutions[2] = ERROR_PATTERNS[1].solutions[1]
         /\ q.solutions[1].confidence = 95
         /\ q.solutions[1].explanation = [k |-> "typo", name |-> UndefinedName(q)]
         /\ q.solutions[1].fix.k = "did you mean"
         /\ q.solutions[1].fix.similar = S
         /\ q.solutions[1].fix.first \in S

\* C14 as stated: the similar variables are the word tokens of the context
\* within 2 of the length of the undefined name and differing from it at no
\* more than 2 positions; a typo solution is emitted exactly when there is
\* one, and lists them all.
C14_SimilarIffClose ==
    \A r \in NameErrorWithContext :
       TypoSolutionLists(reqs[r],
          {v \in WordTokens(reqs[r]) : CloseTo(v, UndefinedName(reqs[r]))})

\* C14 as amended: the similar variables are the word tokens of the context
\* other than the undefined name itself that are within 2 of its length and
\* differ from it at no more than 2 positions; a typo solution is emitted
\* exactly when there is one, lists them all, and proposes one of them.
C14_SimilarIffCloseAndDistinct ==
    \A r \in NameErrorWithContext :
       TypoSolutionLists(reqs[r],
          {v \in WordTokens(reqs[r]) :
              v # UndefinedName(reqs[r]) /\ CloseTo(v, UndefinedName(reqs[r]))})

\* The request "name 'foo' is not defined" with the context foo = 1, foob = 2:
\* the typo solution lists foob, 1 and 2, not foo, and proposes foob.
C14_Witness ==
    \E r \in NameErrorWithContext :
       /\ reqs[r].input.error_message = <<NameFoo>>
       /\ reqs[r].input.code_context = Some(TypoContext)
       /\ Len(reqs[r].solutions) = 2
       /\ reqs[r].solutions[1].fix.similar = {foob, <<"1">>, <<"2">>}
       /\ reqs[r].solutions[1].fix.first = foob
       /\ reqs[r].solutions[1].confidence = 95

\* The requests the catalog resolved to IndexError that carry a context.
IndexErrorWithContext ==
    {r \in Live : reqs[r].catalog = 3 /\ TruthyText(reqs[r].input.code_context)}

\* The assignments "name = [ ... ]" of a context c, the bracket text on one
\* line: the name, and the number of elements of the bracket text, counted
\* as its commas plus one; the empty text counts as `empty` elements.
ListAssignments(c, empty) ==
    { [list_name |-> c[a[1]].s,
       list_length |->
          IF a[2] = a[1] + 3 THEN empty
          ELSE Cardinality({k \in (a[1] + 3)..(a[2] - 1) : c[k].t = ","}) + 1] :
      a \in { b \in (1..Len(c)) \X (1..Len(c)) :
                 /\ b[1] + 3 <= b[2]
                 /\ c[b[1]].t = "w" /\ c[b[1] + 1].t = "=" /\ c[b[1] + 2].t = "["
                 /\ c[b[2]].t = "]"
                 /\ \A k \in (b[1] + 3)..(b[2] - 1) : c[k].t \notin {"]", "nl"} } }

EndsWith(word, name) ==
    /\ Len(name) <= Len(word)
    /\ SubSeq(word, Len(word) - Len(name) + 1, Len(word)) = name

\* The integers of the literal subscripts "name[<integer>]" of a context c;
\* with `whole` false, also those of the subscripts of a longer word that
\* ends with name.
SubscriptsOf(c, name, whole) ==
    { IntOf(c[j + 2].s) :
        j \in { i \in 1..Len(c) :
                   /\ i + 3 <= Len(c)
                   /\ c[i].t = "w"
                   /\ (IF whole THEN c[i].s = name ELSE EndsWith(c[i].s, name))
                   /\ c[i + 1].t = "[" /\ c[i + 3].t = "]"
                   /\ c[i + 2].t = "w" /\ AllDigits(c[i + 2].s) } }

\* Each (index, list, length) with the index at or beyond the length.
Offences(c, empty, whole) ==
    UNION { { [index |-> n, list_name |-> a.list_name, list_length |-> a.list_length] :
                n \in {m \in SubscriptsOf(c, a.list_name, whole) : m >= a.list_length} } :
            a \in ListAssignments(c, empty) }

\* The solutions of q are those of an index finding about one of O, or the
\* catalog's alone when O is empty.
IndexSolutionNames(q, O) ==
    IF O = {}
    THEN q.solutions = ERROR_PATTERNS[3].solutions
    ELSE /\ Len(q.solutions) = 2
         /\ q.solutions[2] = ERROR_PATTERNS[3].solutions[1]
         /\ \E o \in O :
               /\ q.solutions[1].explanation =
                     [k |-> "index out of range", index |-> o.index,
                      list_name |-> o.list_name]
               /\ q.solutions[1].fix =
                     [k |-> "list length", list_name |-> o.list_name,
                      list_length |-> o.list_length]

\* C15 as stated: a specific issue is emitted exactly when the context holds
\* an assignment name = [ ... ] and a subscript name[<integer>] of that name
\* with the integer at or beyond the number of elements of the bracket text
\* (none for empty brackets); the issue names such an index, its list and
\* that number.
C15_IssueIffSubscriptOfListOutOfRange ==
    \A r \in IndexErrorWithContext :
       IndexSolutionNames(reqs[r], Offences(reqs[r].input.code_context[1], 0, TRUE))

\* C15 as amended: a specific issue is emitted exactly when the context holds
\* an assignment name = [ ... ] and the text name[<integer>], be it a
\* subscript of that name or the end of a subscript of a longer name, with
\* the integer at or beyond the estimated length: the commas of the
\* bracket text plus one, so 1 for empty brackets.  The issue names such an
\* index, the list and that estimated length.
C15_IssueIffTextualSubscriptOutOfRange ==
    \A r \in IndexErrorWithContext :
       IndexSolutionNames(reqs[r], Offences(reqs[r].input.code_context[1], 1, FALSE))

\* The context s = [1], xs[3]: the issue says index 3 is out of range for
\* the list s of 1 item, which the context never subscripts.
C15_Witness ==
    \E r \in IndexErrorWithContext :
       /\ reqs[r].input.code_context =
             Some(JoinLines(<< AssignLine(<<"s">>, 1), SubscriptLine(xs, <<"3">>) >>))
       /\ Len(reqs[r].solutions) = 2
       /\ reqs[r].solutions[1].explanation =
             [k |-> "index out of range", index |-> 3, list_name |-> <<"s">>]
       /\ reqs[r].solutions[1].fix =
             [k |-> "list length", list_name |-> <<"s">>, list_length |-> 1]

\* The (project id, error type) keys of a store.
KeysOf(h) ==
    {k \in (DOMAIN h) \X UNION {DOMAIN h[x] : x \in DOMAIN h} : k[2] \in DOMAIN h[k[1]]}

\* The lists of a step's new store that are not the lists of its old store.
Grown ==
    {k \in KeysOf(ERROR_HISTORY') :
        k \notin KeysOf(ERROR_HISTORY)
        \/ ERROR_HISTORY'[k[1]][k[2]] # ERROR_HISTORY[k[1]][k[2]]}

\* A step keeps every project id and every error type of the store, keeps
\* every record of every list at its position, and changes at most one list,
\* by one record added at its end.
C16_Step ==
    /\ DOMAIN ERROR_HISTORY \subseteq DOMAIN ERROR_HISTORY'
    /\ \A k \in KeysOf(ERROR_HISTORY) :
          /\ k \in KeysOf(ERROR_HISTORY')
          /\ Len(ERROR_HISTORY[k[1]][k[2]]) <= Len(ERROR_HISTORY'[k[1]][k[2]])
          /\ SubSeq(ERROR_HISTORY'[k[1]][k[2]], 1, Len(ERROR_HISTORY[k[1]][k[2]]))
                = ERROR_HISTORY[k[1]][k[2]]
    /\ Cardinality(Grown) <= 1
    /\ \A k \in Grown :
          Len(ERROR_HISTORY'[k[1]][k[2]])
             = Len(HistoryOf(ERROR_HISTORY, k[1], k[2])) + 1

\* C16: the store is append-only under every interleaving of the requests:
\* every step leaves each (project id, error type) list a prefix of what it
\* becomes, adds at most one record, at the end of one list, and deletes no
\* project id and no error type.
C16_HistoryAppendOnly == [][C16_Step]_vars

\* Two error types under one project id, one of them with two records: the
\* store after three appends.
C16_Witness ==
    /\ "p1" \in DOMAIN ERROR_HISTORY
    /\ Len(HistoryOf(ERROR_HISTORY, "p1", "NameError")) = 2
    /\ Len(HistoryOf(ERROR_HISTORY, "p1", "RuntimeError")) = 1
    /\ ERROR_HISTORY["p1"]["NameError"][1].timestamp
          < ERROR_HISTORY["p1"]["RuntimeError"][1].timestamp
    /\ ERROR_HISTORY["p1"]["RuntimeError"][1].timestamp
          < ERROR_HISTORY["p1"]["NameError"][2].timestamp

\* The requests whose project id is absent or the empty string.
WithoutProject == {r \in Live : reqs[r].input.project_id \in {None, Some("")}}

\* Such a request holds no frequency and no last_occurrence, has stored
\* nothing and has made no statistics call; its response reports none.
C17_NoStatistics ==
    \A r \in WithoutProject :
       LET q == reqs[r]
       IN /\ q.statistics.frequency = None
          /\ q.statistics.last_occurrence = None
          /\ q.appends = 0 /\ q.stamp = None
          /\ CallsOf(q, "statistics") = {}
          /\ q.pc = "RESPONDING" =>
                /\ q.response[1].statistics.frequency = None
                /\ q.response[1].statistics.last_occurrence = None

\* A step of such a request leaves the store as it was.
C17_Step ==
    (\E r \in Slots : reqs'[r].pc # "idle" /\ reqs'[r].input.project_id \in {None, Some("")})
       => ERROR_HISTORY' = ERROR_HISTORY

\* C17: a request whose project id is absent or the empty string leaves the
\* whole store unchanged at each of its steps, holds and reports neither a
\* frequency nor a last_occurrence, and never issues the statistics call,
\* whatever the store already holds.
C17_NoProjectNoHistory == [](C17_NoStatistics) /\ [][C17_Step]_vars

\* A NameError response to a request with the empty project id, served with
\* the credential set while the store holds six NameError records of p1:
\* one call made, no frequency reported, the store still of six records.
C17_Witness ==
    \E r \in Answered :
       /\ credential
       /\ reqs[r].input.project_id = Some("")
       /\ reqs[r].error_type = "NameError"
       /\ Len(reqs[r].calls) = 1
       /\ reqs[r].calls[1] = [call |-> "resources", reply |-> "ok"]
       /\ reqs[r].response[1].statistics.frequency = None
       /\ DOMAIN ERROR_HISTORY = {"p1"}
       /\ Len(ERROR_HISTORY["p1"]["NameError"]) = 6

\* The calls request q has made are, in this order, at most one
\* classification call (only after a catalog miss), at most one resources
\* call and at most one statistics call, all but the last answered.
CallsInOrder(q) ==
    /\ Len(q.calls) <= 3
    /\ \A c \in {"classify", "resources", "statistics"} : Cardinality(CallsOf(q, c)) <= 1
    /\ \A i \in 1..Len(q.calls) :
          /\ q.calls[i].call \in {"classify", "resources", "statistics"}
          /\ q.calls[i].call = "classify" => i = 1 /\ q.catalog = 0
          /\ q.calls[i].call = "statistics" => i = Len(q.calls) /\ i > 1
          /\ i < Len(q.calls) => q.calls[i].reply # "pending"

\* A request is either answered, with a 200 and a response or with a 404 and
\* none, or it is suspended at a call that has not returned.
C18_AnsweredOrAwaiting ==
    \A r \in Live :
       LET q == reqs[r]
       IN /\ CallsInOrder(q)
          /\ q.pc \in {"RESPONDING", "NOT_FOUND", "await_classify",
                       "await_resources", "await_stats"}
          /\ q.pc = "RESPONDING" =>
                /\ q.status = 200 /\ q.response # None
                /\ \A i \in 1..Len(q.calls) : q.calls[i].reply # "pending"
          /\ q.pc = "NOT_FOUND" =>
                /\ q.status = 404 /\ q.response = None
                /\ \A i \in 1..Len(q.calls) : q.calls[i].reply # "pending"
          /\ q.pc \in {"await_classify", "await_resources", "await_stats"} =>
                /\ q.status = 0 /\ q.response = None
                /\ q.calls # <<>>
                /\ q.calls[Len(q.calls)] =
                      [call |-> (CASE q.pc = "await_classify" -> "classify"
                                   [] q.pc = "await_resources" -> "resources"
                                   [] q.pc = "await_stats" -> "statistics"),
                       reply |-> "pending"]

\* No request is suspended.
AllAnswered == \A r \in Slots : Free(reqs[r])

\* C18: when every call to the service returns (a text or an exception),
\* every request is answered: again and again no request is left suspended.
\* A request makes at most three calls (classification, resources,
\* statistics, each at most once), it is answered 200 with a response or
\* 404 without one, never both, and while unanswered it is suspended at a
\* call that has not returned.
C18_EveryRequestAnswered == [](C18_AnsweredOrAwaiting) /\ []<>AllAnswered

\* A 200 response given after three calls, all answered: a catalog miss
\* classified by the service, its resources, and its statistics.
C18_Witness ==
    \E r \in Answered :
       /\ reqs[r].catalog = 0
       /\ Len(reqs[r].calls) = 3
       /\ reqs[r].calls[1].call = "classify"
       /\ reqs[r].calls[2].call = "resources"
       /\ reqs[r].calls[3].call = "statistics"
       /\ \A i \in 1..3 : reqs[r].calls[i].reply # "pending"
       /\ reqs[r].status = 200

====
